---- MODULE Spec2Model ----
(***************************************************************************)
(* Session orchestration of the playground backend: the Manager layer      *)
(* (backend/src/manager.rs) on top of the Kubernetes layer                  *)
(* (backend/src/kubernetes/session.rs).  Every Kubernetes API call is one   *)
(* atomic step of the task that issues it, so that concurrent requests and  *)
(* the reaper interleave call by call.  Kubernetes is an object store:      *)
(* create fails when the object exists, delete fails when it is absent,     *)
(* deleting a namespace removes what it holds, and replacing the Ingress    *)
(* fails when its resource version changed since it was read.               *)
(***************************************************************************)
EXTENDS Integers, Sequences, FiniteSets, TLC

\* ------------------------------------------------------------------ bounds
MaxTime == 240        \* the clock stops here (seconds)
TickStep == 60        \* seconds one clock step advances
MaxRules == 4         \* Ingress rules kept before a replace is refused by the model

\* -------------------------------------------------------- program constants
SLEEP_TIME == 60      \* Manager::SLEEP_TIME, seconds
SecsPerMin == 60      \* divisor / factor of the duration annotation

Procs == {"p1", "p2"}             \* request tasks
Reaper == "reaper"                \* the task of the reaper loop
Tasks == Procs \cup {Reaper}
Users == {"alice", "Bob"}         \* caller ids, as the identity provider spells them
IdOrder == <<"alice", "bob">>     \* session ids, in the order a listing returns them
SessionIds == {IdOrder[i] : i \in 1..Len(IdOrder)}
DefaultPool == "default"
NoDuration == -1                  \* Option<Duration>::None
NoTime == -1                      \* Option<SystemTime>::None
DurationInputs == {NoDuration, 60, 90, 180}

VARIABLES
  namespaces,    \* ids i whose namespace session-<i> exists
  pods,          \* id -> the pod "session" of namespace session-<id>, or NoPod
  services,      \* ids whose namespace holds the service "service"
  extServices,   \* ids i whose service service-<i> exists in the control namespace
  ingress,       \* the Ingress "ingress": resource version and rule hosts (by session id)
  now,           \* wall clock, seconds
  cfg,           \* Configuration: pool size, sessions per node, default and max duration
  proc,          \* task -> its local state
  budget,        \* request task -> calls it may still issue
  faults,        \* Kubernetes calls that may still fail for a reason outside the program
  reaperHandle,  \* "none" | "unpolled" | "polled": the future spawn_session_reaper_thread returns
  userNamespaces, \* namespace name -> the user namespace of that name, or NoNamespace
  volumeTemplates, \* repository ids r whose claim workspace-template-<r> exists
  jobs           \* <<r, v>> whose job builder-<r>-<v> exists

vars == <<namespaces, pods, services, extServices, ingress, now, cfg, proc, budget, faults,
          reaperHandle, userNamespaces, volumeTemplates, jobs>>
cluster == <<namespaces, pods, services, extServices, ingress, userNamespaces, volumeTemplates,
             jobs>>

\* ------------------------------------------------------------------ values
NoPod == [phase |-> "Absent", start |-> NoTime, ann |-> -1]
NoSnap == [rv |-> -1, rules |-> <<>>]
NoSession == [id |-> "", user_id |-> "", phase |-> "Absent", start_time |-> NoTime, duration |-> -1]

\* Users are namespaces (kubernetes/user.rs).  The ids users are created under,
\* and the namespace names the user calls address: get_user looks up the id as
\* given, create_user and delete_user look up user_namespace(id).
UserIds == {"alice", "bob"}
user_namespace(id) == IF id = "alice" THEN "user-alice" ELSE "user-bob"
UserNamespaceNames == UserIds \cup {user_namespace(id) : id \in UserIds}
NoNamespace == [id |-> "", role |-> "", preferences |-> "", account |-> FALSE]
NoConf == [role |-> "", preferences |-> ""]
UserConfigurations == {[role |-> r, preferences |-> p] : r \in {"user", "admin"}, p \in {"{}", "{theme}"}}

Result(k, n, perm) == [kind |-> k, n |-> n, perm |-> perm]
NoResult == Result("none", 0, "")
Ok == Result("Ok", 0, "")
Failure == Result("Failure", 0, "")
Panic == Result("Panic", 0, "")
SessionIdAlreayUsed == Result("SessionIdAlreadyUsed", 0, "")
Unauthorized(perm) == Result("Unauthorized", 0, perm)
ConcurrentWorkspacesLimitBreached(n) == Result("ConcurrentSessionsLimitBreached", n, "")
DurationLimitBreached(ms) == Result("DurationLimitBreached", ms, "")
MissingData(what) == Result("MissingData", 0, what)
UnknownResource == Result("UnknownResource", 0, "")
ResourceNotOwned == Result("ResourceNotOwned", 0, "")
K8sCommunicationFailure == Result("K8sCommunicationFailure", 0, "")

\* The cluster objects a call can change, as one value.
Snapshot == [ns |-> namespaces, pods |-> pods, svc |-> services, ext |-> extServices,
             rules |-> ingress.rules, users |-> userNamespaces,
             templates |-> volumeTemplates, jobs |-> jobs]

NoSnapshot == [ns |-> {}, pods |-> [i \in SessionIds |-> NoPod], svc |-> {}, ext |-> {}, rules |-> <<>>,
               users |-> [n \in UserNamespaceNames |-> NoNamespace],
               templates |-> {}, jobs |-> {}]

Idle == [op |-> "none", pc |-> "idle", caller |-> "", id |-> "", dur |-> NoDuration,
         pool |-> "", names |-> <<>>, queue |-> <<>>, runtimes |-> <<>>, snap |-> NoSnap,
         nsess |-> 0, res |-> NoResult, got |-> <<>>, pre |-> NoSnapshot, wake |-> 0,
         allOk |-> TRUE, expired |-> {}, conf |-> NoConf, repository_id |-> ""]

\* ------------------------------------------------------------ pure helpers
RECURSIVE SelectIds(_, _)
SelectIds(s, S) ==
  IF s = <<>> THEN <<>>
  ELSE (IF Head(s) \in S THEN <<Head(s)>> ELSE <<>>) \o SelectIds(Tail(s), S)

Range(s) == {s[i] : i \in 1..Len(s)}

\* No rule at all (a variant, not the code).
WithoutAnyHost(rules, host) == <<>>

\* The rules as they are (a variant, not the code).
WithAllHosts(rules, host) == rules

\* session.rs delete_session lines 627-633: the rules of another host
WithoutHost(rules, host) == SelectSeq(rules, LAMBDA h : h # host)

\* The annotation in seconds instead of minutes (a variant, not the code).
session_duration_annotation_secs(duration) == duration

\* session.rs: duration.as_secs() / 60, printed as a decimal number
session_duration_annotation(duration) == duration \div SecsPerMin
workspace_duration_annotation(duration) == duration \div SecsPerMin
\* session.rs: the annotation parsed as u64, times 60 seconds
str_to_session_duration_minutes(str) == str * SecsPerMin

\* Every pod read as a pending one (a variant, not the code).
pod_to_session_pending(id, pod) ==
  [id |-> id, user_id |-> id, phase |-> "Pending", start_time |-> pod.start,
   duration |-> str_to_session_duration_minutes(pod.ann)]

\* session.rs pod_to_session: id and owner are both the pod's owner label, which
\* create_pod sets to the session id
pod_to_session(id, pod) ==
  [id |-> id, user_id |-> id, phase |-> pod.phase, start_time |-> pod.start,
   duration |-> str_to_session_duration_minutes(pod.ann)]

\* repository.rs get_repository_version lines 122-131: whatever the repository
\* and the version asked for, the answer is a version that is being cloned.
RepositoryIds == {"node-template", "front-end-template"}
RepositoryVersionIds == {"main", "stable"}
get_repository_version(repository_id, id) ==
  [id |-> "", state |-> [kind |-> "Cloning", progress |-> 50]]

\* session.rs get_session: any failure of the pod read gives None
get_session(id) ==
  IF pods[id] = NoPod THEN NoSession ELSE pod_to_session(id, pods[id])

\* str::to_ascii_lowercase on the ids of the model
to_ascii_lowercase(s) == IF s = "Bob" THEN "bob" ELSE IF s = "Alice" THEN "alice" ELSE s

\* Role permissions of the callers (the Role store is not part of these sources).
SessionPermissions == {"Create", "Read", "Update", "Delete"}
CustomPermissions ==
  {"CustomizeSessionName", "CustomizeSessionDuration", "CustomizeSessionPoolAffinity"}
ResourcePermissions ==
  {r \o "." \o p : r \in {"User", "Role", "Repository", "RepositoryVersion", "Pool"},
                   p \in {"Create", "Read", "Update", "Delete"}}
    \cup {"SessionExecution.Create"}
\* Bob is an administrator, alice and Alice hold the plain session permissions
\* and may run commands in sessions, bob holds none.  A permission on sessions is written by its name alone, one
\* on another resource as <resource>.<permission>.
RolePermissions(u) ==
  IF u \in {"alice", "Alice"} THEN SessionPermissions \cup {"SessionExecution.Create"}
  ELSE IF u = "Bob" THEN SessionPermissions \cup CustomPermissions \cup ResourcePermissions
  ELSE {}
has_permission(caller, perm) == perm \in RolePermissions(caller)

\* The nodes of a pool; an unknown pool has none and get_pool returns None.
PoolNodes(pool_id) == IF pool_id = DefaultPool THEN cfg.nodes ELSE 0

FaultChoices == IF faults > 0 THEN {TRUE, FALSE} ELSE {FALSE}

\* The reaper gives up its pass at the first failed delete (a variant).
Return_abort(l, r) ==
  IF l.op = "reap"
    THEN (IF r.kind = "Ok"
            THEN [l EXCEPT !.pc = "r_loop", !.snap = NoSnap]
            ELSE [l EXCEPT !.pc = "r_loop", !.snap = NoSnap, !.queue = <<>>, !.allOk = FALSE])
    ELSE [l EXCEPT !.pc = "done", !.res = r, !.names = <<>>, !.queue = <<>>,
                   !.runtimes = <<>>, !.snap = NoSnap]

\* A task returns from its operation: a request task is done, the reaper goes on
\* with the next listed session (it only logs a failed delete).
Return(l, r) ==
  IF l.op = "reap"
    THEN [l EXCEPT !.pc = "r_loop", !.snap = NoSnap, !.allOk = l.allOk /\ r.kind = "Ok"]
    ELSE [l EXCEPT !.pc = "done", !.res = r, !.names = <<>>, !.queue = <<>>,
                   !.runtimes = <<>>, !.snap = NoSnap]

\* ------------------------------------------------------- Manager: entries
\* manager.rs create_session, lines 405-440 and the Read check of get_session
\* (line 384): the first permission the caller lacks, or "" when none is missing.
\* The variant does not ask CustomizeSessionDuration.
create_session_denied_any_duration(caller, id, dur, pool) ==
  IF ~has_permission(caller, "Create") THEN "Create"
  ELSE IF to_ascii_lowercase(caller) # id /\ ~has_permission(caller, "CustomizeSessionName")
    THEN "CustomizeSessionName"
  ELSE IF pool # "" /\ ~has_permission(caller, "CustomizeSessionPoolAffinity")
    THEN "CustomizeSessionPoolAffinity"
  ELSE IF ~has_permission(caller, "Read") THEN "Read"
  ELSE ""

\* The variant asks CustomizeSessionName whatever the session is called.
create_session_denied_any_name(caller, id, dur, pool) ==
  IF ~has_permission(caller, "Create") THEN "Create"
  ELSE IF ~has_permission(caller, "CustomizeSessionName") THEN "CustomizeSessionName"
  ELSE IF dur # NoDuration /\ ~has_permission(caller, "CustomizeSessionDuration")
    THEN "CustomizeSessionDuration"
  ELSE IF pool # "" /\ ~has_permission(caller, "CustomizeSessionPoolAffinity")
    THEN "CustomizeSessionPoolAffinity"
  ELSE IF ~has_permission(caller, "Read") THEN "Read"
  ELSE ""

create_session_denied(caller, id, dur, pool) ==
  IF ~has_permission(caller, "Create") THEN "Create"
  ELSE IF to_ascii_lowercase(caller) # id /\ ~has_permission(caller, "CustomizeSessionName")
    THEN "CustomizeSessionName"
  ELSE IF dur # NoDuration /\ ~has_permission(caller, "CustomizeSessionDuration")
    THEN "CustomizeSessionDuration"
  ELSE IF pool # "" /\ ~has_permission(caller, "CustomizeSessionPoolAffinity")
    THEN "CustomizeSessionPoolAffinity"
  ELSE IF ~has_permission(caller, "Read") THEN "Read"
  ELSE ""

\* A request task starts an operation: ensure_permission, then the first
\* Kubernetes call is pending.
Enter(t, op, caller, id, dur, pool, denied, first) ==
  /\ proc[t].pc \in {"idle", "done"}
  /\ budget[t] > 0
  /\ budget' = [budget EXCEPT ![t] = @ - 1]
  /\ LET l == [Idle EXCEPT !.op = op, !.caller = caller, !.id = id, !.dur = dur,
                           !.pool = pool, !.pre = Snapshot]
     IN proc' = [proc EXCEPT ![t] = IF denied # "" THEN Return(l, Unauthorized(denied))
                                    ELSE [l EXCEPT !.pc = first]]
  /\ UNCHANGED <<cluster, now, cfg, faults, reaperHandle>>

Manager_create_session(t, caller, id, dur, pool) ==
  Enter(t, "create", caller, id, dur, pool, create_session_denied(caller, id, dur, pool),
        "c_guard")

Manager_delete_session(t, caller, id) ==
  Enter(t, "delete", caller, id, NoDuration, "",
        IF has_permission(caller, "Delete") THEN "" ELSE "Delete", "own")

Manager_update_session(t, caller, id, dur) ==
  Enter(t, "update", caller, id, dur, "",
        IF has_permission(caller, "Update") THEN "" ELSE "Update", "own")

\* manager.rs create_session_execution, lines 502-518
Manager_create_session_execution(t, caller, id) ==
  Enter(t, "create_session_execution", caller, id, NoDuration, "",
        IF has_permission(caller, "SessionExecution.Create") THEN ""
        ELSE "SessionExecution.Create", "own")

Manager_get_session(t, caller, id) ==
  Enter(t, "get", caller, id, NoDuration, "",
        IF has_permission(caller, "Read") THEN "" ELSE "Read", "own")

Manager_list_sessions(t, caller) ==
  Enter(t, "list", caller, "", NoDuration, "",
        IF has_permission(caller, "Read") THEN "" ELSE "Read", "ls_ns")

\* Manager::new: the start-up pass over the existing sessions
Manager_new(t) == Enter(t, "new", "", "", NoDuration, "", "", "ls_ns")

\* ------------------------------------------- Manager: ownership and guard
\* Any caller passes for the owner of a session that exists (a variant).
ensure_session_ownership_any_owner(t) ==
  LET l == proc[t]
      s == get_session(l.id)
  IN
  /\ l.pc = "own"
  /\ proc' = [proc EXCEPT ![t] =
       IF l.op = "get" THEN [Return(l, Ok) EXCEPT !.got = IF s # NoSession THEN <<s>> ELSE <<>>]
       ELSE IF s = NoSession THEN Return(l, UnknownResource)
       ELSE [l EXCEPT !.pc = IF l.op = "update" THEN "u_get"
                             ELSE IF l.op = "create_session_execution" THEN "exec"
                             ELSE "d_ns"]]
  /\ UNCHANGED <<cluster, now, cfg, budget, faults, reaperHandle>>

\* manager.rs ensure_session_ownership, under get_session / update_session /
\* delete_session / create_session_execution: one read of the session pod.
ensure_session_ownership(t) ==
  LET l == proc[t]
      s == get_session(l.id)
      r == IF s = NoSession THEN UnknownResource
           ELSE IF l.caller # s.user_id THEN ResourceNotOwned
           ELSE Ok
  IN
  /\ l.pc = "own"
  /\ proc' = [proc EXCEPT ![t] =
       IF l.op = "get"
         THEN [Return(l, Ok) EXCEPT !.got = IF r = Ok THEN <<s>> ELSE <<>>]
       ELSE IF r # Ok THEN Return(l, r)
       ELSE [l EXCEPT !.pc = IF l.op = "update" THEN "u_get"
                             ELSE IF l.op = "create_session_execution" THEN "exec"
                             ELSE "d_ns"]]
  /\ UNCHANGED <<cluster, now, cfg, budget, faults, reaperHandle>>

\* manager.rs create_session lines 442-449 and session.rs create_session lines
\* 462-472: the existence guard (Manager::get_session, which hides a session the
\* caller does not own), get_configuration, and the pool lookup.
create_session_guard(t) ==
  LET l == proc[t]
      s == get_session(l.id)
      pool_id == IF l.pool = "" THEN DefaultPool ELSE l.pool
  IN
  /\ l.pc = "c_guard"
  /\ proc' = [proc EXCEPT ![t] =
       IF s # NoSession /\ l.caller = s.user_id THEN Return(l, SessionIdAlreayUsed)
       ELSE IF PoolNodes(pool_id) = 0 THEN Return(l, MissingData("no matching pool"))
       ELSE [l EXCEPT !.pc = "ls_ns", !.pool = pool_id]]
  /\ UNCHANGED <<cluster, now, cfg, budget, faults, reaperHandle>>

\* --------------------------------------------------- session.rs: listing
\* list_sessions, lines 389-401: the namespaces labelled NAMESPACE_SESSION.  A
\* failed listing ends a create or a list with the error; Manager::new and the
\* reaper only log it.
list_sessions_namespaces(t) ==
  LET l == proc[t] IN
  /\ l.pc = "ls_ns"
  /\ \E fail \in FaultChoices :
       /\ faults' = IF fail THEN faults - 1 ELSE faults
       /\ proc' = [proc EXCEPT ![t] =
            IF ~fail THEN [l EXCEPT !.pc = "ls_pods", !.names = SelectIds(IdOrder, namespaces)]
            ELSE IF l.op = "reap"
              THEN [l EXCEPT !.pc = "r_sleep", !.wake = now + SLEEP_TIME, !.allOk = FALSE]
            ELSE IF l.op = "new" THEN Return(l, Ok)
            ELSE Return(l, Failure)]
  /\ UNCHANGED <<cluster, now, cfg, budget, reaperHandle>>

\* The expiry test one sleep too lenient (a variant, not the code).
ExpiredLate(s, time) ==
  s.phase = "Running" /\ time >= s.start_time /\ time - s.start_time > s.duration + SLEEP_TIME

\* The expiry test without the test of the state (a variant, not the code).
ExpiredAnyState(s, time) == time - s.start_time > s.duration

\* manager.rs lines 83-85: the expiry test of the pass for a listed session
Expired(s, time) ==
  s.phase = "Running" /\ time >= s.start_time /\ time - s.start_time > s.duration

\* No capacity test at all (a variant, not the code).
concurrent_limit_ignored(count, max_sessions_allowed) == FALSE

\* The capacity test with > for >= (a variant, not the code).
concurrent_limit_exceeded(count, max_sessions_allowed) == count > max_sessions_allowed

\* session.rs create_session line 474: the capacity test
concurrent_limit_breached(count, max_sessions_allowed) == count >= max_sessions_allowed

\* list_sessions lines 403-409 with get_pod (377-382): one pod read per listed
\* namespace, unwrapped, so a namespace without a pod panics the caller.  Then
\* the caller goes on: create_session checks the capacity (473-486), Manager::new
\* keeps the Running sessions (48-54), the reaper walks the list.
list_sessions_pods(t) ==
  LET l == proc[t]
      sessions == [i \in 1..Len(l.names) |-> pod_to_session(l.names[i], pods[l.names[i]])]
      panics == \E i \in 1..Len(l.names) : pods[l.names[i]] = NoPod
      max_sessions_allowed == PoolNodes(l.pool) * cfg.max_per_node
  IN
  /\ l.pc = "ls_pods"
  /\ proc' = [proc EXCEPT ![t] =
       IF panics
         THEN (IF l.op = "reap" THEN [l EXCEPT !.pc = "r_dead", !.names = <<>>]
               ELSE Return(l, Panic))
       ELSE IF l.op = "create"
         THEN (IF concurrent_limit_breached(Len(sessions), max_sessions_allowed)
                 THEN [Return(l, ConcurrentWorkspacesLimitBreached(Len(sessions)))
                         EXCEPT !.nsess = Len(sessions)]
                 ELSE [l EXCEPT !.pc = "pi_get", !.names = <<>>, !.nsess = Len(sessions),
                                !.runtimes = <<l.id>>])
       ELSE IF l.op = "list" THEN [Return(l, Ok) EXCEPT !.got = sessions]
       ELSE IF l.op = "new"
         THEN [l EXCEPT !.pc = "pi_get", !.names = <<>>,
                        !.runtimes = SelectIds(IdOrder,
                           {sessions[i].id : i \in {j \in 1..Len(sessions) :
                                                       sessions[j].phase = "Running"}})]
       ELSE [l EXCEPT !.pc = "r_loop", !.names = <<>>, !.queue = sessions,
                      !.expired = {<<sessions[i].id, sessions[i].start_time>> :
                                     i \in {j \in 1..Len(sessions) :
                                               /\ sessions[j].phase = "Running"
                                               /\ now - sessions[j].start_time
                                                     > sessions[j].duration}}]]
  /\ UNCHANGED <<cluster, now, cfg, budget, faults, reaperHandle>>

\* ---------------------------------------------------- session.rs: ingress
\* A replace that goes through whatever the resource version (a variant).
replace_unconditional(read, current) == TRUE

\* ingress_api.replace (lines 440-443 and 637-640): the object sent is the one
\* read, resource version included, and the API server accepts it only when
\* that is still the version of the Ingress.
replace_accepted(read, current) == read.rv = current.rv

\* patch_ingress lines 413-425: read the Ingress
patch_ingress_get(t) ==
  LET l == proc[t] IN
  /\ l.pc = "pi_get"
  /\ \E fail \in FaultChoices :
       /\ faults' = IF fail THEN faults - 1 ELSE faults
       /\ proc' = [proc EXCEPT ![t] =
            IF ~fail THEN [l EXCEPT !.pc = "pi_put", !.snap = ingress]
            ELSE IF l.op = "new" THEN Return(l, Ok)
            ELSE Return(l, Failure)]
  /\ UNCHANGED <<cluster, now, cfg, budget, reaperHandle>>

\* patch_ingress lines 426-444: push one rule per entry of runtimes onto the rules
\* read, and replace the Ingress; the replace carries the resource version read.
patch_ingress_replace(t) ==
  LET l == proc[t]
      rules == l.snap.rules \o l.runtimes
  IN
  /\ l.pc = "pi_put"
  /\ Len(rules) <= MaxRules
  /\ \E fail \in FaultChoices :
       LET ok == ~fail /\ replace_accepted(l.snap, ingress) IN
       /\ faults' = IF fail THEN faults - 1 ELSE faults
       /\ ingress' = IF ok THEN [rv |-> ingress.rv + 1, rules |-> rules] ELSE ingress
       /\ proc' = [proc EXCEPT ![t] =
            IF l.op = "new" THEN Return(l, Ok)
            ELSE IF ok THEN [l EXCEPT !.pc = "c_ns", !.snap = NoSnap, !.runtimes = <<>>]
            ELSE Return(l, Failure)]
  /\ UNCHANGED <<namespaces, pods, services, extServices, userNamespaces,
                 now, cfg, volumeTemplates, jobs, budget, reaperHandle>>

\* ------------------------------------------ session.rs: create_session
\* lines 515-523: create the namespace session-<id>
create_session_namespace(t) ==
  LET l == proc[t] IN
  /\ l.pc = "c_ns"
  /\ \E fail \in FaultChoices :
       LET ok == ~fail /\ l.id \notin namespaces IN
       /\ faults' = IF fail THEN faults - 1 ELSE faults
       /\ namespaces' = IF ok THEN namespaces \cup {l.id} ELSE namespaces
       /\ proc' = [proc EXCEPT ![t] = IF ok THEN [l EXCEPT !.pc = "c_pod"]
                                      ELSE Return(l, Failure)]
  /\ UNCHANGED <<pods, services, extServices, ingress, userNamespaces,
                 now, cfg, volumeTemplates, jobs, budget, reaperHandle>>

\* lines 510-512 and 526-533: create the pod "session", annotated with the
\* requested or the default duration
create_session_pod(t) ==
  LET l == proc[t]
      duration == IF l.dur = NoDuration THEN cfg.duration ELSE l.dur
  IN
  /\ l.pc = "c_pod"
  /\ \E fail \in FaultChoices :
       LET ok == ~fail /\ l.id \in namespaces /\ pods[l.id] = NoPod IN
       /\ faults' = IF fail THEN faults - 1 ELSE faults
       /\ pods' = IF ok
                    THEN [pods EXCEPT ![l.id] =
                            [phase |-> "Pending", start |-> NoTime,
                             ann |-> workspace_duration_annotation(duration)]]
                    ELSE pods
       /\ proc' = [proc EXCEPT ![t] = IF ok THEN [l EXCEPT !.pc = "c_svc"]
                                      ELSE Return(l, Failure)]
  /\ UNCHANGED <<namespaces, services, extServices, ingress, userNamespaces,
                 now, cfg, volumeTemplates, jobs, budget, reaperHandle>>

\* lines 536-541: create the service "service" in the session namespace
create_session_service(t) ==
  LET l == proc[t] IN
  /\ l.pc = "c_svc"
  /\ \E fail \in FaultChoices :
       LET ok == ~fail /\ l.id \in namespaces /\ l.id \notin services IN
       /\ faults' = IF fail THEN faults - 1 ELSE faults
       /\ services' = IF ok THEN services \cup {l.id} ELSE services
       /\ proc' = [proc EXCEPT ![t] = IF ok THEN [l EXCEPT !.pc = "c_ext"]
                                      ELSE Return(l, Failure)]
  /\ UNCHANGED <<namespaces, pods, extServices, ingress, userNamespaces,
                 now, cfg, volumeTemplates, jobs, budget, reaperHandle>>

\* lines 544-553: create the ExternalName service service-<id> in the control
\* namespace
create_session_external_service(t) ==
  LET l == proc[t] IN
  /\ l.pc = "c_ext"
  /\ \E fail \in FaultChoices :
       LET ok == ~fail /\ l.id \notin extServices IN
       /\ faults' = IF fail THEN faults - 1 ELSE faults
       /\ extServices' = IF ok THEN extServices \cup {l.id} ELSE extServices
       /\ proc' = [proc EXCEPT ![t] = Return(l, IF ok THEN Ok ELSE Failure)]
  /\ UNCHANGED <<namespaces, pods, services, ingress, userNamespaces,
                 now, cfg, volumeTemplates, jobs, budget, reaperHandle>>

\* ------------------------------------------ session.rs: delete_session
\* lines 598-605: delete the namespace; what it holds goes with it
delete_session_namespace(t) ==
  LET l == proc[t] IN
  /\ l.pc = "d_ns"
  /\ \E fail \in FaultChoices :
       LET ok == ~fail /\ l.id \in namespaces IN
       /\ faults' = IF fail THEN faults - 1 ELSE faults
       /\ namespaces' = IF ok THEN namespaces \ {l.id} ELSE namespaces
       /\ pods' = IF ok THEN [pods EXCEPT ![l.id] = NoPod] ELSE pods
       /\ services' = IF ok THEN services \ {l.id} ELSE services
       /\ proc' = [proc EXCEPT ![t] = IF ok THEN [l EXCEPT !.pc = "d_ext"]
                                      ELSE Return(l, Failure)]
  /\ UNCHANGED <<extServices, ingress, userNamespaces,
                 now, cfg, volumeTemplates, jobs, budget, reaperHandle>>

\* lines 607-612: delete service-<id> from the control namespace
delete_session_external_service(t) ==
  LET l == proc[t] IN
  /\ l.pc = "d_ext"
  /\ \E fail \in FaultChoices :
       LET ok == ~fail /\ l.id \in extServices IN
       /\ faults' = IF fail THEN faults - 1 ELSE faults
       /\ extServices' = IF ok THEN extServices \ {l.id} ELSE extServices
       /\ proc' = [proc EXCEPT ![t] = IF ok THEN [l EXCEPT !.pc = "d_get"]
                                      ELSE Return(l, Failure)]
  /\ UNCHANGED <<namespaces, pods, services, ingress, userNamespaces,
                 now, cfg, volumeTemplates, jobs, budget, reaperHandle>>

\* lines 614-621: read the Ingress
delete_session_ingress_get(t) ==
  LET l == proc[t] IN
  /\ l.pc = "d_get"
  /\ \E fail \in FaultChoices :
       /\ faults' = IF fail THEN faults - 1 ELSE faults
       /\ proc' = [proc EXCEPT ![t] = IF fail THEN Return(l, Failure)
                                      ELSE [l EXCEPT !.pc = "d_put", !.snap = ingress]]
  /\ UNCHANGED <<cluster, now, cfg, budget, reaperHandle>>

\* lines 622-642: drop the rules of the session's host and replace the Ingress
delete_session_ingress_replace(t) ==
  LET l == proc[t] IN
  /\ l.pc = "d_put"
  /\ \E fail \in FaultChoices :
       LET ok == ~fail /\ replace_accepted(l.snap, ingress) IN
       /\ faults' = IF fail THEN faults - 1 ELSE faults
       /\ ingress' = IF ok THEN [rv |-> ingress.rv + 1,
                                 rules |-> WithoutHost(l.snap.rules, l.id)]
                      ELSE ingress
       /\ proc' = [proc EXCEPT ![t] = Return(l, IF ok THEN Ok ELSE Failure)]
  /\ UNCHANGED <<namespaces, pods, services, extServices, userNamespaces,
                 now, cfg, volumeTemplates, jobs, budget, reaperHandle>>

\* ------------------------------------------ session.rs: update_session
\* The limit test with > for >= (a variant, not the code).
duration_limit_exceeded(duration, max_duration) == duration > max_duration

\* line 569: the limit test
duration_limit_breached(duration, max_duration) == duration >= max_duration

\* lines 561-574: read the session, pick the duration, check it against the
\* maximum, and skip the patch when nothing changes
update_session_get(t) ==
  LET l == proc[t]
      session == get_session(l.id)
      duration == IF l.dur = NoDuration THEN cfg.duration ELSE l.dur
  IN
  /\ l.pc = "u_get"
  /\ proc' = [proc EXCEPT ![t] =
       IF session = NoSession THEN Return(l, MissingData("no matching session"))
       ELSE IF duration_limit_breached(duration, cfg.max_duration)
         THEN Return(l, DurationLimitBreached(cfg.max_duration * 1000))
       ELSE IF duration # session.duration THEN [l EXCEPT !.pc = "u_patch", !.dur = duration]
       ELSE Return([l EXCEPT !.dur = duration], Ok)]
  /\ UNCHANGED <<cluster, now, cfg, budget, faults, reaperHandle>>

\* lines 575-590: JSON-patch the duration annotation of the pod
update_session_patch(t) ==
  LET l == proc[t] IN
  /\ l.pc = "u_patch"
  /\ \E fail \in FaultChoices :
       LET ok == ~fail /\ pods[l.id] # NoPod IN
       /\ faults' = IF fail THEN faults - 1 ELSE faults
       /\ pods' = IF ok THEN [pods EXCEPT ![l.id].ann = session_duration_annotation(l.dur)]
                   ELSE pods
       /\ proc' = [proc EXCEPT ![t] = Return(l, IF ok THEN Ok ELSE Failure)]
  /\ UNCHANGED <<namespaces, services, extServices, ingress, userNamespaces,
                 now, cfg, volumeTemplates, jobs, budget, reaperHandle>>

\* ------------------------------------------------- manager.rs: the reaper
\* spawn_session_reaper_thread lines 74-77: thread::spawn is handed an async
\* closure; the thread calls it, which builds the future of the loop and returns
\* it through the JoinHandle without polling it.
spawn_session_reaper_thread ==
  /\ reaperHandle = "none"
  /\ reaperHandle' = "unpolled"
  /\ UNCHANGED <<cluster, now, cfg, proc, budget, faults>>

\* The caller joins the handle and awaits the future it yields: only then does
\* the loop start, with its first sleep.
reaper_future_awaited ==
  /\ reaperHandle = "unpolled"
  /\ reaperHandle' = "polled"
  /\ proc' = [proc EXCEPT ![Reaper] = [Idle EXCEPT !.op = "reap", !.pc = "r_sleep",
                                                   !.wake = now + SLEEP_TIME,
                                                   !.allOk = FALSE]]
  /\ UNCHANGED <<cluster, now, cfg, budget, faults>>

\* line 78: thread::sleep(SLEEP_TIME) is over, the pass starts by listing
reaper_wake ==
  LET l == proc[Reaper] IN
  /\ l.pc = "r_sleep"
  /\ now >= l.wake
  /\ proc' = [proc EXCEPT ![Reaper] = [l EXCEPT !.pc = "ls_ns", !.allOk = TRUE,
                                                !.expired = {}, !.id = ""]]
  /\ UNCHANGED <<cluster, now, cfg, budget, faults, reaperHandle>>

\* lines 82-101: the next listed session; an expired Running one is deleted.
\* After the last one the loop sleeps again.
reaper_loop ==
  LET l == proc[Reaper] IN
  /\ l.pc = "r_loop"
  /\ proc' = [proc EXCEPT ![Reaper] =
       IF l.queue = <<>> THEN [l EXCEPT !.pc = "r_sleep", !.wake = now + SLEEP_TIME]
       ELSE IF Expired(Head(l.queue), now)
         THEN [l EXCEPT !.pc = "d_ns", !.id = Head(l.queue).id, !.queue = Tail(l.queue)]
       ELSE [l EXCEPT !.queue = Tail(l.queue)]]
  /\ UNCHANGED <<cluster, now, cfg, budget, faults, reaperHandle>>

\* ------------------------------------------------------------ environment
\* The kubelet starts a pending pod: phase Running, status.startTime set.
pod_starts(id) ==
  /\ pods[id].phase = "Pending"
  /\ pods' = [pods EXCEPT ![id].phase = "Running", ![id].start = now]
  /\ UNCHANGED <<namespaces, services, extServices, ingress, userNamespaces,
                 now, cfg, volumeTemplates, jobs, proc,
                 budget, faults, reaperHandle>>

\* A pod fails (image pull, eviction, crash).
pod_fails(id) ==
  /\ pods[id].phase \in {"Pending", "Running"}
  /\ faults > 0
  /\ faults' = faults - 1
  /\ pods' = [pods EXCEPT ![id].phase = "Failed"]
  /\ UNCHANGED <<namespaces, services, extServices, ingress, userNamespaces,
                 now, cfg, volumeTemplates, jobs, proc,
                 budget, reaperHandle>>

\* The node of a running pod stops reporting: the pod's phase is Unknown.
pod_unknown(id) ==
  /\ pods[id].phase = "Running"
  /\ pods' = [pods EXCEPT ![id].phase = "Unknown"]
  /\ UNCHANGED <<namespaces, services, extServices, ingress, userNamespaces,
                 now, cfg, volumeTemplates, jobs, proc,
                 budget, faults, reaperHandle>>

\* The clock advances.
Tick ==
  /\ now + TickStep <= MaxTime
  /\ now' = now + TickStep
  /\ UNCHANGED <<cluster, cfg, proc, budget, faults, reaperHandle>>

\* The clock advances by less than the sleep of the reaper.
TickHalf ==
  /\ now + TickStep \div 2 <= MaxTime
  /\ now' = now + TickStep \div 2
  /\ UNCHANGED <<cluster, cfg, proc, budget, faults, reaperHandle>>

\* --------------------------------------------------------- user.rs: users
NoUser == [id |-> "", role |-> "", preferences |-> ""]

\* user.rs namespace_to_user: the id is the RESOURCE_ID label, role and
\* preferences are the annotations
namespace_to_user(namespace) ==
  [id |-> namespace.id, role |-> namespace.role, preferences |-> namespace.preferences]

\* user.rs user_to_namespace: the namespace object create_user posts
user_to_namespace(user) ==
  [id |-> user.id, role |-> user.role, preferences |-> user.preferences, account |-> FALSE]

\* user.rs get_user: namespace_api.get_opt(id), the id as the namespace name
get_user(id) ==
  IF userNamespaces[id] = NoNamespace THEN NoUser ELSE namespace_to_user(userNamespaces[id])

\* The users list_users would return: the namespaces that carry a user
list_users == {namespace_to_user(userNamespaces[n]) :
                  n \in {m \in UserNamespaceNames : userNamespaces[m] # NoNamespace}}

\* A request task starts an operation on a record l of its inputs.
Begin(t, l, denied, first) ==
  /\ proc[t].pc \in {"idle", "done"}
  /\ budget[t] > 0
  /\ budget' = [budget EXCEPT ![t] = @ - 1]
  /\ proc' = [proc EXCEPT ![t] = IF denied # "" THEN Return(l, Unauthorized(denied))
                                 ELSE [l EXCEPT !.pc = first]]
  /\ UNCHANGED <<cluster, now, cfg, faults, reaperHandle>>

Call(op, caller, id, conf) ==
  [Idle EXCEPT !.op = op, !.caller = caller, !.id = id, !.conf = conf, !.pre = Snapshot]

\* manager.rs get_user / update_user / delete_user: the permission is asked
\* only when caller.id != id.
user_denied(caller, id, perm) ==
  IF caller # id /\ ~has_permission(caller, perm) THEN perm ELSE ""

Manager_get_user(t, caller, id) ==
  Begin(t, Call("get_user", caller, id, NoConf), user_denied(caller, id, "User.Read"), "gu")

Manager_create_user(t, caller, id, conf) ==
  Begin(t, Call("create_user", caller, id, conf),
        IF has_permission(caller, "User.Create") THEN "" ELSE "User.Create", "cu_ns")

Manager_update_user(t, caller, id, conf) ==
  Begin(t, Call("update_user", caller, id, conf), user_denied(caller, id, "User.Update"),
        "uu")

Manager_delete_user(t, caller, id) ==
  Begin(t, Call("delete_user", caller, id, NoConf), user_denied(caller, id, "User.Delete"),
        "du")

\* user.rs get_user, lines 72-84
get_user_namespace(t) ==
  LET l == proc[t]
      user == get_user(l.id)
  IN
  /\ l.pc = "gu"
  /\ \E fail \in FaultChoices :
       /\ faults' = IF fail THEN faults - 1 ELSE faults
       /\ proc' = [proc EXCEPT ![t] =
            IF fail THEN Return(l, Failure)
            ELSE [Return(l, Ok) EXCEPT !.got = IF user = NoUser THEN <<>> ELSE <<user>>]]
  /\ UNCHANGED <<cluster, now, cfg, budget, reaperHandle>>

\* user.rs create_user, lines 99-103: create the namespace user_namespace(id)
create_user_namespace(t) ==
  LET l == proc[t]
      name == user_namespace(l.id)
      user == [id |-> l.id, role |-> l.conf.role, preferences |-> l.conf.preferences]
  IN
  /\ l.pc = "cu_ns"
  /\ \E fail \in FaultChoices :
       LET ok == ~fail /\ userNamespaces[name] = NoNamespace IN
       /\ faults' = IF fail THEN faults - 1 ELSE faults
       /\ userNamespaces' = IF ok THEN [userNamespaces EXCEPT ![name] = user_to_namespace(user)]
                            ELSE userNamespaces
       /\ proc' = [proc EXCEPT ![t] = IF ok THEN [l EXCEPT !.pc = "cu_sa"]
                                      ELSE Return(l, Failure)]
  /\ UNCHANGED <<namespaces, pods, services, extServices, ingress,
                 now, cfg, volumeTemplates, jobs, budget,
                 reaperHandle>>

\* user.rs create_user, lines 105-119: the service account in that namespace
create_user_service_account(t) ==
  LET l == proc[t]
      name == user_namespace(l.id)
  IN
  /\ l.pc = "cu_sa"
  /\ \E fail \in FaultChoices :
       LET ok == ~fail /\ userNamespaces[name] # NoNamespace /\ ~userNamespaces[name].account IN
       /\ faults' = IF fail THEN faults - 1 ELSE faults
       /\ userNamespaces' = IF ok THEN [userNamespaces EXCEPT ![name].account = TRUE]
                            ELSE userNamespaces
       /\ proc' = [proc EXCEPT ![t] = Return(l, IF ok THEN Ok ELSE Failure)]
  /\ UNCHANGED <<namespaces, pods, services, extServices, ingress,
                 now, cfg, volumeTemplates, jobs, budget,
                 reaperHandle>>

\* update_annotation_value(api, name, ...): a patch of the namespace of that
\* name; there is nothing to patch when it does not exist.
update_annotation_value(store, name, role, preferences) ==
  [store EXCEPT ![name].role = role, ![name].preferences = preferences]

\* user.rs update_user, lines 124-147: get_user(id), then the annotations that
\* differ are patched on the namespace named user.id
update_user_namespace(t) ==
  LET l == proc[t]
      user == get_user(l.id)
      changed == l.conf.role # user.role \/ l.conf.preferences # user.preferences
  IN
  /\ l.pc = "uu"
  /\ \E fail \in FaultChoices :
       LET found == ~fail /\ user # NoUser
           ok == found /\ (changed => userNamespaces[user.id] # NoNamespace)
       IN
       /\ faults' = IF fail THEN faults - 1 ELSE faults
       /\ userNamespaces' =
            IF ok /\ changed
              THEN update_annotation_value(userNamespaces, user.id, l.conf.role,
                                           l.conf.preferences)
              ELSE userNamespaces
       /\ proc' = [proc EXCEPT ![t] =
            Return(l, IF fail THEN Failure
                      ELSE IF user = NoUser THEN UnknownResource
                      ELSE IF ok THEN Ok ELSE Failure)]
  /\ UNCHANGED <<namespaces, pods, services, extServices, ingress,
                 now, cfg, volumeTemplates, jobs, budget,
                 reaperHandle>>

\* user.rs delete_user, lines 149-158: delete the namespace user_namespace(id)
delete_user_namespace(t) ==
  LET l == proc[t]
      name == user_namespace(l.id)
  IN
  /\ l.pc = "du"
  /\ \E fail \in FaultChoices :
       LET ok == ~fail /\ userNamespaces[name] # NoNamespace IN
       /\ faults' = IF fail THEN faults - 1 ELSE faults
       /\ userNamespaces' = IF ok THEN [userNamespaces EXCEPT ![name] = NoNamespace]
                            ELSE userNamespaces
       /\ proc' = [proc EXCEPT ![t] = Return(l, IF ok THEN Ok ELSE Failure)]
  /\ UNCHANGED <<namespaces, pods, services, extServices, ingress,
                 now, cfg, volumeTemplates, jobs, budget,
                 reaperHandle>>

\* ------------------------- manager.rs: roles, repositories, versions, pools
\* Each operation with the permission its first statement asks for.
ResourceOperations ==
  {[op |-> "list_users", perm |-> "User.Read"],
   [op |-> "get_role", perm |-> "Role.Read"],
   [op |-> "list_roles", perm |-> "Role.Read"],
   [op |-> "create_role", perm |-> "Role.Create"],
   [op |-> "update_role", perm |-> "Role.Update"],
   [op |-> "delete_role", perm |-> "Role.Delete"],
   [op |-> "get_repository", perm |-> "Repository.Read"],
   [op |-> "list_repositories", perm |-> "Repository.Read"],
   [op |-> "create_repository", perm |-> "Repository.Create"],
   [op |-> "update_repository", perm |-> "Repository.Update"],
   [op |-> "delete_repository", perm |-> "Repository.Delete"],
   [op |-> "get_repository_version", perm |-> "RepositoryVersion.Read"],
   [op |-> "list_repository_versions", perm |-> "RepositoryVersion.Read"],
   [op |-> "create_repository_version", perm |-> "RepositoryVersion.Create"],
   [op |-> "delete_repository_version", perm |-> "RepositoryVersion.Delete"],
   [op |-> "get_pool", perm |-> "Pool.Read"],
   [op |-> "list_pools", perm |-> "Pool.Read"],
   [op |-> "create_session_execution", perm |-> "SessionExecution.Create"]}

\* manager.rs ensure_permission: the permission that is refused, "" when it is
\* granted.
ensure_permission(caller, perm) == IF has_permission(caller, perm) THEN "" ELSE perm

\* The variant goes on to the body without asking.
Manager_resource_operation_unchecked(t, caller, o) ==
  Begin(t, Call(o.op, caller, "", NoConf), "", "body")

Manager_resource_operation(t, caller, o) ==
  Begin(t, Call(o.op, caller, "", NoConf), ensure_permission(caller, o.perm), "body")

\* What follows the permission check: the store is read or written (the stores
\* of roles, repositories, versions and pools are not part of the state) and
\* the call returns.
resource_operation_body(t) ==
  LET l == proc[t] IN
  /\ l.pc = "body"
  /\ \E fail \in FaultChoices :
       /\ faults' = IF fail THEN faults - 1 ELSE faults
       /\ proc' = [proc EXCEPT ![t] =
            IF fail THEN Return(l, Failure)
            ELSE [Return(l, Ok) EXCEPT !.got = IF l.op = "list_users"
                                                THEN <<Cardinality(list_users)>> ELSE <<>>]]
  /\ UNCHANGED <<cluster, now, cfg, budget, reaperHandle>>

\* session.rs create_session_execution, lines 657-675: the command is run in
\* the pod named after the session id, in the namespace of the session; the pod
\* of a session is named "session" (line 110).
PodName == "session"
create_session_execution(t) ==
  LET l == proc[t] IN
  /\ l.pc = "exec"
  /\ proc' = [proc EXCEPT ![t] =
       IF l.id = PodName /\ l.id \in namespaces /\ pods[l.id].phase = "Running"
         THEN Return(l, Ok)
         ELSE Return(l, Failure)]
  /\ UNCHANGED <<cluster, now, cfg, budget, faults, reaperHandle>>

\* ------------------------------------------- repository.rs: repository versions
\* manager.rs create_repository_version, lines 318-332
Manager_create_repository_version(t, caller, repository_id, id) ==
  Begin(t, [Call("create_repository_version", caller, id, NoConf)
              EXCEPT !.repository_id = repository_id],
        ensure_permission(caller, "RepositoryVersion.Create"), "rv_volume")

\* repository.rs create_repository_version lines 144-147 with
\* create_volume_template (70-81): the claim is created, and a create of a name
\* that exists is refused by Kubernetes.
create_volume_template(t) ==
  LET l == proc[t] IN
  /\ l.pc = "rv_volume"
  /\ \E fail \in FaultChoices :
       /\ faults' = IF fail THEN faults - 1 ELSE faults
       /\ IF fail \/ l.repository_id \in volumeTemplates
            THEN /\ proc' = [proc EXCEPT ![t] = Return(l, K8sCommunicationFailure)]
                 /\ UNCHANGED volumeTemplates
            ELSE /\ proc' = [proc EXCEPT ![t].pc = "rv_job"]
                 /\ volumeTemplates' = volumeTemplates \cup {l.repository_id}
  /\ UNCHANGED <<namespaces, pods, services, extServices, ingress, userNamespaces, jobs, now,
                 cfg, budget, reaperHandle>>

\* repository.rs create_repository_version lines 149-201: the builder job
create_builder_job(t) ==
  LET l == proc[t] IN
  /\ l.pc = "rv_job"
  /\ \E fail \in FaultChoices :
       /\ faults' = IF fail THEN faults - 1 ELSE faults
       /\ IF fail \/ <<l.repository_id, l.id>> \in jobs
            THEN /\ proc' = [proc EXCEPT ![t] = Return(l, K8sCommunicationFailure)]
                 /\ UNCHANGED jobs
            ELSE /\ proc' = [proc EXCEPT ![t] = Return(l, Ok)]
                 /\ jobs' = jobs \cup {<<l.repository_id, l.id>>}
  /\ UNCHANGED <<namespaces, pods, services, extServices, ingress, userNamespaces,
                 volumeTemplates, now, cfg, budget, reaperHandle>>

\* repository.rs line 158, ttl_seconds_after_finished: Some(0): a builder job
\* that has finished is removed; its claim stays.
job_finishes(repository_id, id) ==
  /\ <<repository_id, id>> \in jobs
  /\ jobs' = jobs \ {<<repository_id, id>>}
  /\ UNCHANGED <<namespaces, pods, services, extServices, ingress, userNamespaces,
                 volumeTemplates, now, cfg, proc, budget, faults, reaperHandle>>

\* ------------------------------------------------------------ composition
ListSteps(t) == list_sessions_namespaces(t) \/ list_sessions_pods(t)

IngressSteps(t) == patch_ingress_get(t) \/ patch_ingress_replace(t)

CreateSteps(t) ==
  \/ create_session_guard(t)
  \/ create_session_namespace(t)
  \/ create_session_pod(t)
  \/ create_session_service(t)
  \/ create_session_external_service(t)

DeleteSteps(t) ==
  \/ delete_session_namespace(t)
  \/ delete_session_external_service(t)
  \/ delete_session_ingress_get(t)
  \/ delete_session_ingress_replace(t)

UpdateSteps(t) == update_session_get(t) \/ update_session_patch(t)

Kubelet == \E id \in SessionIds : pod_starts(id) \/ pod_fails(id)

Configurations ==
  {[nodes |-> 1, max_per_node |-> m, duration |-> 120, max_duration |-> 180] : m \in {1, 2}}

InitCluster ==
  /\ namespaces = {}
  /\ pods = [i \in SessionIds |-> NoPod]
  /\ services = {}
  /\ extServices = {}
  /\ ingress = [rv |-> 0, rules |-> <<>>]
  /\ now = 0
  /\ proc = [t \in Tasks |-> Idle]
  /\ reaperHandle = "none"
  /\ userNamespaces = [n \in UserNamespaceNames |-> NoNamespace]
  /\ volumeTemplates = {}
  /\ jobs = {}

\* Two requests in flight at once: p1 is alice creating her session, p2 is
\* alice or Bob creating a session under their own name or under alice's.
InitConcurrentCreate ==
  /\ InitCluster
  /\ cfg \in Configurations
  /\ budget = [t \in Tasks |-> IF t \in Procs THEN 1 ELSE 0]
  /\ faults = 0

NextConcurrentCreate ==
  \/ Manager_create_session("p1", "alice", "alice", NoDuration, "")
  \/ \E caller \in Users : \E id \in {to_ascii_lowercase(caller), "alice"} :
        Manager_create_session("p2", caller, id, NoDuration, "")
  \/ \E t \in Procs : CreateSteps(t) \/ ListSteps(t) \/ IngressSteps(t)

SpecConcurrentCreate == InitConcurrentCreate /\ [][NextConcurrentCreate]_vars

\* One request at a time, any operation, with a Kubernetes call that may fail
\* and pods that start or fail.
InitSequential ==
  /\ InitCluster
  /\ cfg \in Configurations
  /\ budget = [t \in Tasks |-> IF t = "p1" THEN 3 ELSE 0]
  /\ faults \in {0, 1}

Requests(t) ==
  \/ \E caller \in Users, id \in SessionIds, dur \in {NoDuration, 90}, pool \in {"", "gpu"} :
        Manager_create_session(t, caller, id, dur, pool)
  \/ \E caller \in Users, id \in SessionIds : Manager_delete_session(t, caller, id)
  \/ \E caller \in Users, id \in SessionIds, dur \in DurationInputs :
        Manager_update_session(t, caller, id, dur)
  \/ \E caller \in Users, id \in SessionIds : Manager_get_session(t, caller, id)
  \/ \E caller \in Users : Manager_list_sessions(t, caller)

NextSequential ==
  \/ Requests("p1")
  \/ Manager_new("p1")
  \/ ensure_session_ownership("p1")
  \/ CreateSteps("p1") \/ ListSteps("p1") \/ IngressSteps("p1")
  \/ DeleteSteps("p1") \/ UpdateSteps("p1")
  \/ Kubelet

SpecSequential == InitSequential /\ [][NextSequential]_vars

\* The server has started its reaper and the handle is awaited: the loop runs
\* beside one request task, pods start and fail, the clock advances.
ReaperConfigurations ==
  {[nodes |-> 1, max_per_node |-> 2, duration |-> 60, max_duration |-> 180]}

InitReaper ==
  /\ InitCluster
  /\ cfg \in ReaperConfigurations
  /\ budget = [t \in Tasks |-> IF t = "p1" THEN 2 ELSE 0]
  /\ faults \in {0, 1}

ReaperSteps ==
  \/ reaper_wake
  \/ reaper_loop
  \/ ListSteps(Reaper)
  \/ DeleteSteps(Reaper)

OwnRequests(t) ==
  \/ \E u \in Users : Manager_create_session(t, u, to_ascii_lowercase(u), NoDuration, "")
  \/ \E u \in Users : Manager_delete_session(t, u, to_ascii_lowercase(u))

NextReaper ==
  \/ spawn_session_reaper_thread
  \/ reaper_future_awaited
  \/ ReaperSteps
  \/ reaperHandle # "none" /\ OwnRequests("p1")
  \/ ensure_session_ownership("p1")
  \/ CreateSteps("p1") \/ ListSteps("p1") \/ IngressSteps("p1") \/ DeleteSteps("p1")
  \/ Kubelet
  \/ Tick

SpecReaper == InitReaper /\ [][NextReaper]_vars

\* Two writers of the Ingress at once: p1 is Bob creating the session bob, p2
\* is alice creating her session and deleting it.
InitConcurrentIngress ==
  /\ InitCluster
  /\ cfg \in {c \in Configurations : c.max_per_node = 2}
  /\ budget = [t \in Tasks |-> IF t = "p1" THEN 1 ELSE IF t = "p2" THEN 2 ELSE 0]
  /\ faults = 0

NextConcurrentIngress ==
  \/ Manager_create_session("p1", "Bob", "bob", NoDuration, "")
  \/ Manager_create_session("p2", "alice", "alice", NoDuration, "")
  \/ Manager_delete_session("p2", "alice", "alice")
  \/ ensure_session_ownership("p2")
  \/ \E t \in Procs : CreateSteps(t) \/ ListSteps(t) \/ IngressSteps(t)
  \/ DeleteSteps("p2")

SpecConcurrentIngress == InitConcurrentIngress /\ [][NextConcurrentIngress]_vars

\* Sessions are created and read back, one request at a time, while their pods
\* start, fail or lose their node.
InitDerivation ==
  /\ InitCluster
  /\ cfg \in Configurations
  /\ budget = [t \in Tasks |-> IF t = "p1" THEN 3 ELSE 0]
  /\ faults \in {0, 1}

NextDerivation ==
  \/ \E u \in Users : Manager_create_session("p1", u, to_ascii_lowercase(u), NoDuration, "")
  \/ \E caller \in Users, id \in SessionIds : Manager_get_session("p1", caller, id)
  \/ \E caller \in Users : Manager_list_sessions("p1", caller)
  \/ ensure_session_ownership("p1")
  \/ CreateSteps("p1") \/ ListSteps("p1") \/ IngressSteps("p1")
  \/ Kubelet
  \/ \E id \in SessionIds : pod_unknown(id)

SpecDerivation == InitDerivation /\ [][NextDerivation]_vars

\* The Manager's whole interface, one request at a time, for callers of every
\* role: sessions, users and the other resources.  No pod starts here.
Callers == Users \cup {"Alice", "bob"}
LongDuration == 240

ManagerConfigurations ==
  {[nodes |-> 1, max_per_node |-> 2, duration |-> 120, max_duration |-> 180]}

InitManager ==
  /\ InitCluster
  /\ cfg \in ManagerConfigurations
  /\ budget = [t \in Tasks |-> IF t = "p1" THEN 3 ELSE 0]
  /\ faults = 0

SessionRequests(t) ==
  \/ \E caller \in Callers, id \in SessionIds, dur \in {NoDuration, LongDuration},
        pool \in {"", "gpu"} :
        Manager_create_session(t, caller, id, dur, pool)
  \/ \E caller \in Callers, id \in SessionIds : Manager_delete_session(t, caller, id)
  \/ \E caller \in Callers, id \in SessionIds :
        Manager_update_session(t, caller, id, 90)
  \/ \E caller \in Callers, id \in SessionIds : Manager_get_session(t, caller, id)
  \/ \E caller \in Callers : Manager_list_sessions(t, caller)

UserRequests(t) ==
  \/ \E caller \in Callers, id \in UserNamespaceNames : Manager_get_user(t, caller, id)
  \/ \E caller \in Callers, id \in UserIds, conf \in UserConfigurations :
        Manager_create_user(t, caller, id, conf)
  \/ \E caller \in Callers, id \in UserNamespaceNames, conf \in UserConfigurations :
        Manager_update_user(t, caller, id, conf)
  \/ \E caller \in Callers, id \in UserIds : Manager_delete_user(t, caller, id)

UserSteps(t) ==
  \/ get_user_namespace(t)
  \/ create_user_namespace(t)
  \/ create_user_service_account(t)
  \/ update_user_namespace(t)
  \/ delete_user_namespace(t)

NextManager ==
  \/ SessionRequests("p1")
  \/ UserRequests("p1")
  \/ \E caller \in Callers, o \in ResourceOperations :
        Manager_resource_operation("p1", caller, o)
  \/ resource_operation_body("p1")
  \/ ensure_session_ownership("p1")
  \/ CreateSteps("p1") \/ ListSteps("p1") \/ IngressSteps("p1")
  \/ DeleteSteps("p1") \/ UpdateSteps("p1")
  \/ UserSteps("p1")

SpecManager == InitManager /\ [][NextManager]_vars

\* The program as the sources have it: spawn_session_reaper_thread is called at
\* start-up and nothing awaits the future it returns.
InitReaperSpawn ==
  /\ InitCluster
  /\ cfg \in ReaperConfigurations
  /\ budget = [t \in Tasks |-> IF t = "p1" THEN 2 ELSE 0]
  /\ faults = 0

NextReaperSpawn ==
  \/ spawn_session_reaper_thread
  \/ reaperHandle # "none" /\
       \E u \in Users :
         Manager_create_session("p1", u, to_ascii_lowercase(u), NoDuration, "")
  \/ CreateSteps("p1") \/ ListSteps("p1") \/ IngressSteps("p1")
  \/ \E id \in SessionIds : pod_starts(id)
  \/ Tick

SpecReaperSpawn == InitReaperSpawn /\ [][NextReaperSpawn]_vars

\* Everything together: requests of any kind, the reaper, the kubelet, the
\* clock, and one Kubernetes call or pod that fails.
\* Versions of repositories created one call at a time, by an administrator
\* or by a user without the permission, while builder jobs finish.
InitRepositoryVersion ==
  /\ InitCluster
  /\ cfg \in ManagerConfigurations
  /\ budget = [t \in Tasks |-> IF t = "p1" THEN 3 ELSE 0]
  /\ faults \in {0, 1}

NextRepositoryVersion ==
  \/ \E caller \in Users : \E repository_id \in RepositoryIds : \E id \in RepositoryVersionIds :
        Manager_create_repository_version("p1", caller, repository_id, id)
  \/ create_volume_template("p1")
  \/ create_builder_job("p1")
  \/ \E repository_id \in RepositoryIds : \E id \in RepositoryVersionIds :
        job_finishes(repository_id, id)

SpecRepositoryVersion == InitRepositoryVersion /\ [][NextRepositoryVersion]_vars

\* Calls on sessions by their owner and by others: alice and Bob create their
\* sessions; alice and Alice, neither an administrator, update, delete and run
\* commands in any session.
SessionOwners == {"alice", "Bob"}
PlainCallers == {"alice", "Alice"}
InitOwnership ==
  /\ InitCluster
  /\ cfg \in ManagerConfigurations
  /\ budget = [t \in Tasks |-> IF t = "p1" THEN 3 ELSE 0]
  /\ faults = 0

NextOwnership ==
  \/ \E caller \in SessionOwners :
        Manager_create_session("p1", caller, to_ascii_lowercase(caller), NoDuration, "")
  \/ \E caller \in PlainCallers : \E id \in SessionIds :
        \/ Manager_update_session("p1", caller, id, 90)
        \/ Manager_delete_session("p1", caller, id)
        \/ Manager_create_session_execution("p1", caller, id)
  \/ ensure_session_ownership("p1")
  \/ create_session_execution("p1")
  \/ CreateSteps("p1") \/ ListSteps("p1") \/ IngressSteps("p1")
  \/ DeleteSteps("p1") \/ UpdateSteps("p1")
  \/ \E id \in SessionIds : pod_starts(id)

SpecOwnership == InitOwnership /\ [][NextOwnership]_vars

\* The reaper at work while alice, who has created her session with the default
\* duration of one minute, extends it to two.
ExtendedDuration == 2 * SecsPerMin
InitReaperUpdate ==
  /\ InitCluster
  /\ cfg \in ReaperConfigurations
  /\ budget = [t \in Tasks |-> IF t = "p1" THEN 2 ELSE 0]
  /\ faults = 0

NextReaperUpdate ==
  \/ spawn_session_reaper_thread
  \/ reaper_future_awaited
  \/ ReaperSteps
  \/ reaperHandle # "none" /\ Manager_create_session("p1", "alice", "alice", NoDuration, "")
  \/ Manager_update_session("p1", "alice", "alice", ExtendedDuration)
  \/ ensure_session_ownership("p1")
  \/ CreateSteps("p1") \/ ListSteps("p1") \/ IngressSteps("p1") \/ UpdateSteps("p1")
  \/ pod_starts("alice")
  \/ TickHalf

SpecReaperUpdate == InitReaperUpdate /\ [][NextReaperUpdate]_vars

\* The sessions alice and bob, created with the default duration, have been
\* running since time 0; the reaper is started, and alice deletes her session
\* at some moment.
InitReaperRace ==
  /\ cfg \in ReaperConfigurations
  /\ namespaces = SessionIds
  /\ pods = [i \in SessionIds |->
               [phase |-> "Running", start |-> 0, ann |-> session_duration_annotation(cfg.duration)]]
  /\ services = SessionIds
  /\ extServices = SessionIds
  /\ ingress = [rv |-> Len(IdOrder), rules |-> IdOrder]
  /\ now = 0
  /\ proc = [t \in Tasks |-> Idle]
  /\ reaperHandle = "none"
  /\ userNamespaces = [n \in UserNamespaceNames |-> NoNamespace]
  /\ volumeTemplates = {}
  /\ jobs = {}
  /\ budget = [t \in Tasks |-> IF t = "p1" THEN 1 ELSE 0]
  /\ faults = 0

NextReaperRace ==
  \/ spawn_session_reaper_thread
  \/ reaper_future_awaited
  \/ ReaperSteps
  \/ Manager_delete_session("p1", "alice", "alice")
  \/ ensure_session_ownership("p1")
  \/ DeleteSteps("p1")
  \/ Tick

SpecReaperRace == InitReaperRace /\ [][NextReaperRace]_vars

Init ==
  /\ InitCluster
  /\ cfg \in ReaperConfigurations
  /\ budget = [t \in Tasks |-> IF t = "p1" THEN 2 ELSE 0]
  /\ faults = 1

Next ==
  \/ \E t \in Procs :
        \/ Requests(t)
        \/ Manager_new(t)
        \/ ensure_session_ownership(t)
        \/ CreateSteps(t) \/ ListSteps(t) \/ IngressSteps(t)
        \/ DeleteSteps(t) \/ UpdateSteps(t)
  \/ spawn_session_reaper_thread
  \/ reaper_future_awaited
  \/ ReaperSteps
  \/ Kubelet
  \/ Tick

Spec == Init /\ [][Next]_vars

\* ================================================================== claims
Done(t) == proc[t].pc = "done"

SessionExists(id) == pods[id] # NoPod

Deploying(id) == pods[id].phase = "Pending"

Count(seq, x) == Cardinality({i \in 1..Len(seq) : seq[i] = x})

\* The cluster holds the objects of the snapshot and no others (a pod may have
\* changed phase in between).
SameObjects(pre) ==
  /\ namespaces = pre.ns
  /\ services = pre.svc
  /\ extServices = pre.ext
  /\ ingress.rules = pre.rules
  /\ \A i \in SessionIds : (pods[i] = NoPod) <=> (pre.pods[i] = NoPod)

Quiescent == \A t \in Tasks : proc[t].pc \in {"idle", "done", "r_sleep", "r_dead"}

RunningOrDeploying == {i \in SessionIds : pods[i].phase \in {"Pending", "Running"}}

\* C1: when two create calls by the same caller with the same session id have
\* both returned, exactly one returned Ok, the other SessionIdAlreadyUsed, and the
\* session is Deploying.
C1_OneCreateWins ==
  (/\ Done("p1") /\ Done("p2")
   /\ proc["p1"].id = proc["p2"].id
   /\ proc["p1"].caller = proc["p2"].caller)
  => /\ \E w \in Procs : \E o \in Procs \ {w} :
          proc[w].res = Ok /\ proc[o].res = SessionIdAlreayUsed
     /\ Deploying(proc["p1"].id)

\* C2: a create_session that returned Failure left the namespaces, pods,
\* services and Ingress rules it found when it was called.
C2_FailedCreateLeavesNoTrace ==
  \A t \in Procs :
    (proc[t].op = "create" /\ Done(t) /\ proc[t].res = Failure) => SameObjects(proc[t].pre)

\* C3: when nothing is in flight, the hosts of the Ingress rules are exactly the
\* ids of the sessions that exist.
C3_IngressMatchesSessions ==
  Quiescent => Range(ingress.rules) = {i \in SessionIds : SessionExists(i)}

\* C4: when the reaper sleeps after a pass whose listing and deletes all
\* succeeded, no session that the listing showed Running with
\* now - start_time > max_duration still exists.
C4_NoExpiredSessionAfterPass ==
  (proc[Reaper].pc = "r_sleep" /\ proc[Reaper].allOk)
  => \A e \in proc[Reaper].expired :
       ~(SessionExists(e[1]) /\ pods[e[1]].start = e[2])

\* C4 witness: a pass that found an expired session has completed with every
\* delete succeeding.
C4_PassReapedSomething ==
  /\ proc[Reaper].pc = "r_sleep"
  /\ proc[Reaper].allOk
  /\ proc[Reaper].expired # {}

\* C5: once spawn_session_reaper_thread has been called, no session is Running
\* more than two reaper intervals past start_time + max_duration.
C5_ExpiredSessionsAreReaped ==
  reaperHandle # "none"
  => \A i \in SessionIds :
       ~(/\ pods[i].phase = "Running"
         /\ now - pods[i].start > get_session(i).duration + 2 * SLEEP_TIME)

\* C6: with calls that do not overlap, the Running-or-Deploying sessions never
\* exceed the capacity of the pool, and the capacity check of a create rejects it
\* with ConcurrentSessionsLimitBreached(n) exactly when the number n of
\* Running-or-Deploying sessions is at least the capacity.
C6_AdmissionCountsLiveSessions ==
  /\ [](Quiescent => Cardinality(RunningOrDeploying) <= cfg.nodes * cfg.max_per_node)
  /\ [][\A t \in Procs :
          (/\ proc[t].op = "create"
           /\ proc[t].pc = "ls_pods"
           /\ proc'[t].pc # "ls_pods")
          => LET n == Cardinality(RunningOrDeploying)
                 full == n >= PoolNodes(proc[t].pool) * cfg.max_per_node
             IN /\ full => proc'[t].res = ConcurrentWorkspacesLimitBreached(n)
                /\ ~full => proc'[t].res.kind # "ConcurrentSessionsLimitBreached"]_vars

\* Scenario S4: one node, one session per node, alice and Bob each created a
\* session under their own name, concurrently, and both calls have returned.
S4 ==
  /\ cfg.nodes = 1 /\ cfg.max_per_node = 1
  /\ Done("p1") /\ Done("p2")
  /\ proc["p1"].caller # proc["p2"].caller
  /\ proc["p1"].id # proc["p2"].id

C8_NoSecondObjectForId ==
  \A t \in Procs :
    (proc[t].op = "create" /\ Done(t) /\ proc[t].id \in proc[t].pre.ns)
    => /\ proc[t].res # Ok
       /\ Count(ingress.rules, proc[t].id) = Count(proc[t].pre.rules, proc[t].id)
       /\ (proc[t].id \in extServices) = (proc[t].id \in proc[t].pre.ext)
       /\ SessionExists(proc[t].id) = (proc[t].pre.pods[proc[t].id] # NoPod)

\* C9: a create_session called by a caller with the required permissions for an
\* id whose session exists returns SessionIdAlreadyUsed and changes no cluster
\* object.
C9_GuardRejectsExistingId ==
  \A t \in Procs :
    (/\ proc[t].op = "create" /\ Done(t)
     /\ proc[t].pre.pods[proc[t].id] # NoPod
     /\ proc[t].res.kind # "Unauthorized")
    => (proc[t].res = SessionIdAlreayUsed /\ SameObjects(proc[t].pre))

\* The step in which an update_session returns Ok.
UpdateReturnsOk(t) ==
  /\ proc[t].op = "update"
  /\ proc[t].pc \in {"u_get", "u_patch"}
  /\ proc'[t].pc = "done"
  /\ proc'[t].res = Ok

\* What a get_session following the update reads, and what the update changed.
RoundTrip(t) ==
  LET id == proc[t].id IN
  /\ pods'[id] # NoPod
  /\ pod_to_session(id, pods'[id]).duration = proc'[t].dur
  /\ pods' = [pods EXCEPT ![id].ann = pods'[id].ann]
  /\ UNCHANGED <<namespaces, services, extServices, ingress>>

UpdateChecksLimit(t) ==
  /\ proc[t].op = "update"
  /\ proc[t].pc = "u_get"
  /\ proc'[t].pc # "u_get"
  /\ get_session(proc[t].id) # NoSession

RequestedDuration(t) == IF proc[t].dur = NoDuration THEN cfg.duration ELSE proc[t].dur

\* C11: an update_session for a duration d >= max_duration returns
\* DurationLimitBreached(max_duration in milliseconds) and leaves the pod as it
\* was; for d < max_duration it is not refused, and it returns Ok unless the
\* patch call itself fails.
C11_DurationLimitOnUpdate ==
  [][\A t \in Procs :
       /\ UpdateChecksLimit(t) =>
            IF RequestedDuration(t) >= cfg.max_duration
              THEN /\ proc'[t].pc = "done"
                   /\ proc'[t].res = DurationLimitBreached(cfg.max_duration * 1000)
                   /\ pods' = pods
              ELSE \/ proc'[t].pc = "u_patch"
                   \/ proc'[t].pc = "done" /\ proc'[t].res = Ok
       /\ (proc[t].op = "update" /\ proc[t].pc = "u_patch" /\ proc'[t].pc = "done")
            => \/ proc'[t].res = Ok
               \/ proc'[t].res = Failure /\ faults' < faults]_vars

\* C11 witness: an update asking for the maximum was refused with the maximum
\* in milliseconds, the annotation untouched.
C11_UpdateRefusedAtLimit ==
  \E t \in Procs :
    /\ proc[t].op = "update" /\ Done(t)
    /\ proc[t].dur = cfg.max_duration
    /\ proc[t].res = DurationLimitBreached(cfg.max_duration * 1000)
    /\ pods[proc[t].id].ann = proc[t].pre.pods[proc[t].id].ann

\* C12: a delete of a session of which nothing is left (no namespace, no
\* external-name service, no Ingress rule), called by a caller allowed to delete,
\* returns Ok and changes nothing.
C12_DeleteIsIdempotent ==
  \A t \in Procs :
    (/\ proc[t].op = "delete" /\ Done(t)
     /\ proc[t].res.kind # "Unauthorized"
     /\ proc[t].id \notin proc[t].pre.ns
     /\ proc[t].id \notin proc[t].pre.ext
     /\ Count(proc[t].pre.rules, proc[t].id) = 0)
    => (proc[t].res = Ok /\ SameObjects(proc[t].pre))

\* C17: every session that Manager::get_session or Manager::list_sessions
\* returned to alice, who has no more than the basic session permissions, is
\* owned by alice.
C17_ReadsReturnOwnSessions ==
  \A t \in Procs :
    (/\ proc[t].op \in {"get", "list"} /\ Done(t) /\ proc[t].res = Ok
     /\ proc[t].caller = "alice")
    => \A i \in 1..Len(proc[t].got) : proc[t].got[i].user_id = proc[t].caller

\* The caller's id in lower case, written out for the callers of the model.
LowerCased == [c \in Callers |-> IF c \in {"alice", "Alice"} THEN "alice" ELSE "bob"]

\* The objects of the cluster, the user namespaces included, are those of the
\* snapshot.
Untouched(pre) == SameObjects(pre) /\ userNamespaces = pre.users /\ pods = pre.pods

\* C13: a create_session by a caller without CustomizeSessionName for a session
\* id other than the caller's lower-cased id is refused with Unauthorized, for
\* CustomizeSessionName when the caller holds Create (the check before it), and
\* creates nothing; a create_session for the caller's own lower-cased id is never
\* refused for CustomizeSessionName.
C13_CustomNameNeedsPermission ==
  \A t \in Procs :
    (proc[t].op = "create" /\ Done(t)) =>
      /\ (/\ ~has_permission(proc[t].caller, "CustomizeSessionName")
          /\ proc[t].id # LowerCased[proc[t].caller])
         => /\ proc[t].res.kind = "Unauthorized"
            /\ has_permission(proc[t].caller, "Create")
                 => proc[t].res = Unauthorized("CustomizeSessionName")
            /\ Untouched(proc[t].pre)
      /\ proc[t].id = LowerCased[proc[t].caller]
         => proc[t].res # Unauthorized("CustomizeSessionName")

\* C13 happens: Alice, who lacks CustomizeSessionName, has created the session
\* alice, and then was refused the session bob.
C13_OwnNameCreatedOtherRefused ==
  \E t \in Procs :
    /\ proc[t].op = "create" /\ Done(t)
    /\ proc[t].caller = "Alice" /\ proc[t].id = "bob"
    /\ proc[t].res = Unauthorized("CustomizeSessionName")
    /\ SessionExists("alice") /\ ~SessionExists("bob")

\* The (resource, permission) pair of each Manager operation.
SessionOperations ==
  [create |-> "Create", delete |-> "Delete", update |-> "Update", get |-> "Read",
   list |-> "Read"]
UserOperations ==
  [get_user |-> "User.Read", create_user |-> "User.Create", update_user |-> "User.Update",
   delete_user |-> "User.Delete"]
OperationPermission(op) ==
  IF op \in DOMAIN SessionOperations THEN SessionOperations[op]
  ELSE IF op \in DOMAIN UserOperations THEN UserOperations[op]
  ELSE (CHOOSE o \in ResourceOperations : o.op = op).perm

\* The caller of the call l owns what the call is aimed at: the user of the
\* caller's id, or an existing session whose owner is the caller.
OwnsTarget(l) ==
  IF l.op \in {"get_user", "update_user", "delete_user"} THEN l.caller = l.id
  ELSE IF l.op \in {"get", "update", "delete"}
    THEN l.pre.pods[l.id] # NoPod /\ pod_to_session(l.id, l.pre.pods[l.id]).user_id = l.caller
  ELSE FALSE

\* C14: whatever the Manager operation, a caller whose role lacks the
\* operation's (resource, permission) pair and who does not own the target gets
\* Unauthorized for that pair; the call returns no data and the cluster is as it
\* was when the call came in.
C14_UnauthorizedWithoutPermission ==
  \A t \in Procs :
    (/\ Done(t)
     /\ ~has_permission(proc[t].caller, OperationPermission(proc[t].op))
     /\ ~OwnsTarget(proc[t]))
    => /\ proc[t].res = Unauthorized(OperationPermission(proc[t].op))
       /\ proc[t].got = <<>>
       /\ Untouched(proc[t].pre)

\* C14 happens: alice, who holds no permission on users, asked for the existing
\* user bob to be deleted, was refused, and the user is still there.
C14_RefusedDeleteOfOtherUser ==
  \E t \in Procs :
    /\ proc[t].op = "delete_user" /\ Done(t)
    /\ proc[t].caller = "alice" /\ proc[t].id = "bob"
    /\ proc[t].res = Unauthorized("User.Delete")
    /\ userNamespaces[user_namespace("bob")] # NoNamespace

\* The user of that id existed when the call l came in.
UserExisted(l, id) == id \in UserIds /\ l.pre.users[user_namespace(id)] # NoNamespace

\* C15: get_user, update_user and delete_user of an existing user by that user
\* return Ok whatever the caller's role; the same calls for another id by a
\* caller without the (User, Read / Update / Delete) permission return
\* Unauthorized.
C15_UserSelfService ==
  \A t \in Procs :
    (Done(t) /\ proc[t].op \in {"get_user", "update_user", "delete_user"}) =>
      /\ (proc[t].caller = proc[t].id /\ UserExisted(proc[t], proc[t].id))
           => proc[t].res = Ok
      /\ (/\ proc[t].caller # proc[t].id
          /\ ~has_permission(proc[t].caller, OperationPermission(proc[t].op)))
           => proc[t].res = Unauthorized(OperationPermission(proc[t].op))

\* C16: get_session, update_session and delete_session of a session the caller
\* owns return Ok, the session itself in the case of get_session, whatever the
\* caller's role.
C16_SessionSelfService ==
  \A t \in Procs :
    (/\ Done(t) /\ proc[t].op \in {"get", "update", "delete"}
     /\ OwnsTarget(proc[t]))
    => /\ proc[t].res = Ok
       /\ proc[t].op = "get" => Len(proc[t].got) = 1

\* C18: when delete_user has returned Ok, the user's namespace is gone, the
\* user owns no session and no Ingress rule routes to a session of the user.
C18_DeleteUserCascades ==
  \A t \in Procs :
    (Done(t) /\ proc[t].op = "delete_user" /\ proc[t].res = Ok) =>
      /\ userNamespaces[user_namespace(proc[t].id)] = NoNamespace
      /\ \A i \in SessionIds :
           SessionExists(i) => pod_to_session(i, pods[i]).user_id # proc[t].id
      /\ Count(ingress.rules, proc[t].id) = 0

\* The user a namespace of the store stands for.
StoredUser(id) ==
  LET n == userNamespaces[user_namespace(id)] IN
  [id |-> id, role |-> n.role, preferences |-> n.preferences]

\* C19: get_user of a user that create_user has created returns that user, with
\* the role and the preferences the user was created or last updated with;
\* update_user of such a user returns Ok and the user then has the role and the
\* preferences of the update.
C19_UserRoundTrip ==
  \A t \in Procs :
    (Done(t) /\ UserExisted(proc[t], proc[t].id)) =>
      /\ (proc[t].op = "get_user" /\ proc[t].res.kind # "Unauthorized")
           => proc[t].res = Ok /\ proc[t].got = <<StoredUser(proc[t].id)>>
      /\ (proc[t].op = "update_user" /\ proc[t].res.kind # "Unauthorized")
           => /\ proc[t].res = Ok
              /\ StoredUser(proc[t].id).role = proc[t].conf.role
              /\ StoredUser(proc[t].id).preferences = proc[t].conf.preferences

Min(a, b) == IF a <= b THEN a ELSE b

\* C20: a create_session that returned Ok was not asked for a duration of
\* max_duration or more, and the session has the smaller of the requested (or
\* default) duration and max_duration; no session has a duration above
\* max_duration.
C20_DurationCappedAtCreate ==
  /\ \A t \in Procs :
       (Done(t) /\ proc[t].op = "create" /\ proc[t].res = Ok) =>
         /\ proc[t].dur = NoDuration \/ proc[t].dur < cfg.max_duration
         /\ get_session(proc[t].id).duration = Min(RequestedDuration(t), cfg.max_duration)
  /\ \A i \in SessionIds :
       SessionExists(i) => get_session(i).duration <= cfg.max_duration

\* The permissions create_session asks of the call l beyond Read.
RequiredToCreate(l) ==
  {"Create"}
    \cup (IF l.id # LowerCased[l.caller] THEN {"CustomizeSessionName"} ELSE {})
    \cup (IF l.dur # NoDuration THEN {"CustomizeSessionDuration"} ELSE {})
    \cup (IF l.pool # "" THEN {"CustomizeSessionPoolAffinity"} ELSE {})

\* The task t comes in with a call of the operation op.
Enters(t, op) == budget'[t] < budget[t] /\ proc'[t].op = op

C22_MaterializationOrder ==
  [][\A t \in Procs : \A id \in SessionIds :
       (proc[t].op = "create" /\ proc[t].id = id) =>
         /\ (pods[id] = NoPod /\ pods'[id] # NoPod) => id \in namespaces
         /\ (id \notin services /\ id \in services') => pods[id] # NoPod
         /\ (id \notin extServices /\ id \in extServices') => id \in services
         /\ Count(ingress'.rules, id) > Count(ingress.rules, id) => id \in extServices]_vars

\* C23: a delete_session deletes the namespace while the external-name service
\* and the Ingress rules are still as the call found them, deletes the
\* external-name service only once the namespace is gone, and drops the Ingress
\* rule only once both are gone; when it returns Ok there is no namespace, no
\* external-name service and no Ingress rule of the session.
C23_DeleteOrderAndPostcondition ==
  [][\A t \in Procs :
       LET id == proc[t].id IN
       proc[t].op = "delete" =>
         /\ (id \in namespaces /\ id \notin namespaces')
              => extServices = proc[t].pre.ext /\ ingress.rules = proc[t].pre.rules
         /\ (id \in extServices /\ id \notin extServices')
              => id \notin namespaces /\ ingress.rules = proc[t].pre.rules
         /\ ingress'.rules # ingress.rules
              => id \notin namespaces /\ id \notin extServices
         /\ (~Done(t) /\ proc'[t].pc = "done" /\ proc'[t].res = Ok)
              => /\ id \notin namespaces'
                 /\ id \notin extServices'
                 /\ Count(ingress'.rules, id) = 0]_vars

\* C23 happens: a delete_session returned Ok for a session that had its
\* namespace, its external-name service and its Ingress rule.
C23_DeletedAllThree ==
  \E t \in Procs :
    /\ proc[t].op = "delete" /\ Done(t) /\ proc[t].res = Ok
    /\ proc[t].id \in proc[t].pre.ns
    /\ proc[t].id \in proc[t].pre.ext
    /\ Count(proc[t].pre.rules, proc[t].id) > 0

\* C24: the Ingress never holds two rules for one host.
C24_OneRulePerHost == \A id \in SessionIds : Count(ingress.rules, id) <= 1

\* C25: when Manager::new returns, every Running session has exactly one
\* Ingress rule, and a host that had a rule before has no more rules than before.
C25_StartupFixUp ==
  [][\A t \in Procs :
       (proc[t].op = "new" /\ ~Done(t) /\ proc'[t].pc = "done" /\ proc'[t].res = Ok) =>
         \A id \in SessionIds :
           /\ pods'[id].phase = "Running" => Count(ingress'.rules, id) = 1
           /\ Count(proc[t].pre.rules, id) > 0
                => Count(ingress'.rules, id) = Count(proc[t].pre.rules, id)]_vars

\* The task t is about to replace the Ingress with a copy read at a resource
\* version that is no longer the current one.
StaleReplace(t) ==
  /\ proc[t].pc \in {"pi_put", "d_put"}
  /\ proc[t].snap.rv # ingress.rv
  /\ proc'[t] # proc[t]

\* C26: a replace of the Ingress that is rejected because the resource version
\* moved on sends the operation back to read the Ingress again; it does not end
\* the operation.
C26_ConflictIsRetried ==
  [][\A t \in Procs :
       StaleReplace(t) => proc'[t].pc \in {"pi_get", "d_get"} /\ proc'[t].res = NoResult]_vars

\* C27: every replace of the Ingress changes the rules as they are at that
\* moment (it appends the rules of the create, or drops the rules of the deleted
\* session's host), so it carries no stale copy; and a create that returned Ok
\* has its rule in the Ingress, a delete that returned Ok has none, whatever the
\* other writer did in between.
C27_NoLostIngressUpdate ==
  /\ [][ingress'.rules # ingress.rules =>
          \E t \in Procs :
            \/ proc[t].pc = "pi_put" /\ ingress'.rules = ingress.rules \o proc[t].runtimes
            \/ /\ proc[t].pc = "d_put"
               /\ ingress'.rules = SelectSeq(ingress.rules, LAMBDA h : h # proc[t].id)]_vars
  /\ [](\A t \in Procs :
          (Done(t) /\ proc[t].res = Ok) =>
            /\ proc[t].op = "create" => Count(ingress.rules, proc[t].id) = 1
            /\ proc[t].op = "delete" => Count(ingress.rules, proc[t].id) = 0)

\* C27 happens: Bob's create has returned Ok and its rule is in the Ingress
\* while the delete of the session alice holds a copy of the Ingress read before
\* that rule was written.
C27_StaleCopyInFlight ==
  /\ Done("p1") /\ proc["p1"].res = Ok
  /\ proc["p2"].op = "delete" /\ proc["p2"].pc = "d_put"
  /\ Count(proc["p2"].snap.rules, "bob") = 0
  /\ Count(ingress.rules, "bob") = 1

\* C28: a step of a delete_session of the session A leaves the Ingress rules of
\* every other host as they are, in their order, and leaves the namespace, the
\* pod and the services of every other session alone.
C28_DeleteFrame ==
  [][\A t \in Procs :
       (proc[t].op = "delete" /\ proc'[t] # proc[t]) =>
         /\ SelectSeq(ingress'.rules, LAMBDA h : h # proc[t].id)
              = SelectSeq(ingress.rules, LAMBDA h : h # proc[t].id)
         /\ \A b \in SessionIds \ {proc[t].id} :
              /\ b \in namespaces' <=> b \in namespaces
              /\ pods'[b] = pods[b]
              /\ b \in services' <=> b \in services
              /\ b \in extServices' <=> b \in extServices]_vars

\* C28 happens: the session alice was deleted, with its rule, beside the
\* session bob, which is still there with its rule.
C28_OtherSessionKept ==
  \E t \in Procs :
    /\ proc[t].op = "delete" /\ Done(t) /\ proc[t].res = Ok /\ proc[t].id = "alice"
    /\ Count(proc[t].pre.rules, "alice") = 1 /\ Count(ingress.rules, "alice") = 0
    /\ Count(proc[t].pre.rules, "bob") = 1 /\ Count(ingress.rules, "bob") = 1
    /\ SessionExists("bob") /\ "bob" \in namespaces /\ "bob" \in extServices

\* C29: a session that get_session or list_sessions returned is Deploying
\* (pod Pending), Running (pod Running, with the pod's start time) or Failed
\* (pod Failed); a pod in any other phase is no session, and get_session of a
\* session without a pod returns none.
C29_StateDerivation ==
  \A t \in Procs :
    (Done(t) /\ proc[t].op \in {"get", "list"} /\ proc[t].res = Ok) =>
      /\ \A i \in 1..Len(proc[t].got) :
           LET s == proc[t].got[i] IN
           /\ s.phase \in {"Pending", "Running", "Failed"}
           /\ s.phase = "Running" => s.start_time = pods[s.id].start
      /\ (proc[t].op = "get" /\ pods[proc[t].id] = NoPod) => proc[t].got = <<>>

\* C30: no call panics and the reaper's task does not die; a list_sessions
\* that was allowed and whose namespace listing worked returns Ok with every
\* session that has a pod, whatever namespaces are without one.
C30_ListRobustness ==
  \A t \in Tasks :
    /\ proc[t].pc # "r_dead"
    /\ Done(t) => proc[t].res # Panic
    /\ (Done(t) /\ proc[t].op = "list" /\ proc[t].res.kind \notin {"Unauthorized", "Failure"})
         => /\ proc[t].res = Ok
            /\ {proc[t].got[i].id : i \in 1..Len(proc[t].got)}
                 = {id \in SessionIds : proc[t].pre.pods[id] # NoPod}

\* The state of a session as a read of its pod derives it.
SessionStates ==
  [Absent |-> "Deleted", Pending |-> "Deploying", Running |-> "Running", Failed |-> "Failed"]
Observed(id, pod) ==
  IF pod = NoPod THEN "Deleted" ELSE SessionStates[pod_to_session(id, pod).phase]

\* The states that may follow a state at the next observation.
Successors ==
  [Deleted |-> {"Deleted", "Deploying"},
   Deploying |-> {"Deploying", "Running", "Failed", "Deleted"},
   Running |-> {"Running", "Failed", "Deleted"},
   Failed |-> {"Failed", "Deleted"}]

DeleteSequence == [d_ns |-> "d_ext", d_ext |-> "d_get", d_get |-> "d_put", d_put |-> "r_loop"]

\* C32: in a pass of the reaper, a delete_session that fails leaves the rest of
\* the listing to be gone through; every listed session that is Running and
\* expired when its turn comes gets its delete_session called; and after the
\* last listed session the reaper sleeps until the next pass.
C32_SweepContinuesOnError ==
  [][LET l == proc[Reaper]
         n == proc'[Reaper]
     IN
     (n # l) =>
       /\ l.pc \in DOMAIN DeleteSequence
            => \/ n.pc = DeleteSequence[l.pc] /\ n.queue = l.queue
               \/ n.pc = "r_loop" /\ n.queue = l.queue /\ ~n.allOk
       /\ (l.pc = "r_loop" /\ l.queue # <<>>)
            => /\ n.queue = Tail(l.queue)
               /\ IF /\ Head(l.queue).phase = "Running"
                      /\ now - Head(l.queue).start_time > Head(l.queue).duration
                    THEN n.pc = "d_ns" /\ n.id = Head(l.queue).id
                    ELSE n.pc = "r_loop"
       /\ (l.pc = "r_loop" /\ l.queue = <<>>) => n.pc = "r_sleep"]_vars

\* C32 happens: the delete of one expired session has failed in this pass and
\* the reaper is deleting the next expired session of the listing.
C32_NextDeleteAfterFailure ==
  /\ proc[Reaper].pc = "d_ns"
  /\ ~proc[Reaper].allOk
  /\ proc[Reaper].id = "bob"
  /\ SessionExists("bob")

\* A create_session that has gone past its capacity check.
PastCapacityCheck(t) ==
  /\ proc[t].op = "create"
  /\ \/ proc[t].pc \in {"pi_get", "pi_put", "c_ns", "c_pod", "c_svc", "c_ext"}
     \/ proc[t].pc = "done" /\ proc[t].res.kind \in {"Ok", "Failure"}

\* C33: under concurrent create_session calls the Running-or-Deploying sessions
\* may be more than the capacity |pool.nodes| * max_sessions_per_node, but every
\* call that went past the capacity check had listed fewer sessions than the
\* capacity, and the excess is at most the number of calls past that check (at
\* most one session per call in flight with the check).
C33_OverAdmissionBound ==
  LET capacity == PoolNodes(DefaultPool) * cfg.max_per_node
      admitted == {t \in Procs : PastCapacityCheck(t)}
  IN
  /\ \A t \in admitted : proc[t].nsess < capacity
  /\ Cardinality(RunningOrDeploying) > capacity
       => /\ Cardinality(RunningOrDeploying) - capacity <= Cardinality(admitted)
          /\ \A t \in Procs : SessionExists(proc[t].id) => t \in admitted

\* C33 happens: with a capacity of one session, two concurrent calls have both
\* returned Ok and two sessions are Deploying.
C33_OverAdmittedByOne ==
  /\ PoolNodes(DefaultPool) * cfg.max_per_node = 1
  /\ \A t \in Procs : Done(t) /\ proc[t].res = Ok
  /\ Cardinality(RunningOrDeploying) = 2

\* C34: a create_session for a repository version that is not in state Ready
\* fails (with RepositoryVersionNotReady, unless an earlier check has refused
\* the call), and it never gets to the patch of the Ingress or to the creation
\* of a namespace, pod or service.
C34_RepositoryVersionGate ==
  \A t \in Procs : \A repository_id \in RepositoryIds : \A id \in RepositoryVersionIds :
    (proc[t].op = "create" /\ get_repository_version(repository_id, id).state.kind # "Ready")
      => /\ proc[t].pc \notin {"pi_get", "pi_put", "c_ns", "c_pod", "c_svc", "c_ext"}
         /\ Done(t) => proc[t].res # Ok

\* C35: a create_repository_version for a repository whose volume template claim
\* exists already (and whose builder job for that version does not), with no
\* Kubernetes call failing for another reason, returns Ok, keeps the claim and
\* creates the builder job.
C35_VolumeTemplateReused ==
  \A t \in Procs :
    LET l == proc[t] IN
    (/\ l.op = "create_repository_version" /\ Done(t)
     /\ l.res.kind # "Unauthorized"
     /\ l.repository_id \in l.pre.templates
     /\ <<l.repository_id, l.id>> \notin l.pre.jobs
     /\ faults = 1)
      => /\ l.res = Ok
         /\ l.repository_id \in volumeTemplates
         /\ <<l.repository_id, l.id>> \in jobs

OwnedOperations == {"update", "delete", "create_session_execution"}

\* C36: an update_session, delete_session or create_session_execution that the
\* caller, who is no administrator, has the permission to call returns
\* ResourceNotOwned when the session exists with a user_id other than the
\* caller's id and UnknownResource when the session does not exist, and in both
\* cases the objects of the cluster and the duration of every session are as
\* they were when the call began.
C36_NotOwnedMutations ==
  \A t \in Procs :
    LET l == proc[t] IN
    (/\ l.op \in OwnedOperations /\ Done(t)
     /\ l.res.kind # "Unauthorized"
     /\ ~(ResourcePermissions \subseteq RolePermissions(l.caller)))
      => /\ (l.pre.pods[l.id] # NoPod /\ pod_to_session(l.id, l.pre.pods[l.id]).user_id # l.caller)
              => l.res = ResourceNotOwned
         /\ l.pre.pods[l.id] = NoPod => l.res = UnknownResource
         /\ l.res \in {ResourceNotOwned, UnknownResource}
              => /\ SameObjects(l.pre)
                 /\ userNamespaces = l.pre.users
                 /\ \A i \in SessionIds : pods[i].ann = l.pre.pods[i].ann

\* C36 happens: alice, who may run commands in sessions, has asked to run one in
\* the session bob and was told the session is not hers.
C36_ExecutionNotOwned ==
  /\ proc["p1"].op = "create_session_execution" /\ Done("p1")
  /\ proc["p1"].caller = "alice" /\ proc["p1"].id = "bob"
  /\ SessionExists("bob")
  /\ proc["p1"].res = ResourceNotOwned

\* C37: when a pass of the reaper decides to delete a session, the session has
\* been running for longer than the duration its pod annotation holds at that
\* moment, so that a session whose duration was extended by a successful
\* update_session before it expired is not deleted before the new duration has
\* elapsed.
C37_ReaperUsesCurrentAnnotation ==
  [][(proc[Reaper].pc = "r_loop" /\ proc'[Reaper].pc = "d_ns")
       => LET id == proc'[Reaper].id IN
          /\ pods[id].phase = "Running"
          /\ now - pods[id].start > str_to_session_duration_minutes(pods[id].ann)]_vars

\* C38: the reaper starts the delete of a session only from its loop, for the
\* session of the listing of that pass it has come to, and only when the listing
\* shows that session Running and the time since its start is strictly more
\* than its max duration; a listed session that is Deploying, Failed, or Running
\* and not expired is passed over, and a delete step of the reaper removes
\* nothing of any other session.
C38_ReaperSafety ==
  [][LET l == proc[Reaper]
         n == proc'[Reaper]
     IN
     /\ (n.pc = "d_ns" /\ l.pc # "d_ns")
          => /\ l.pc = "r_loop" /\ l.queue # <<>>
             /\ n.id = Head(l.queue).id
             /\ Head(l.queue).phase = "Running"
             /\ now - Head(l.queue).start_time > Head(l.queue).duration
     /\ (l.pc = "r_loop" /\ n # l /\ l.queue # <<>>
          /\ \/ Head(l.queue).phase \in {"Pending", "Failed"}
             \/ now - Head(l.queue).start_time <= Head(l.queue).duration)
          => n.pc = "r_loop" /\ UNCHANGED cluster
     /\ (n # l /\ l.pc \in DOMAIN DeleteSequence)
          => \A i \in SessionIds \ {l.id} :
               /\ pods'[i] = pods[i]
               /\ (i \in namespaces') = (i \in namespaces)
               /\ (i \in extServices') = (i \in extServices)
               /\ Count(ingress'.rules, i) = Count(ingress.rules, i)]_vars

\* C38 happens: the reaper has passed over the session alice, which has failed
\* and started longer ago than its max duration, and is deleting the session bob.
C38_FailedSessionPassedOver ==
  /\ proc[Reaper].pc = "d_ns" /\ proc[Reaper].id = "bob"
  /\ pods["alice"].phase = "Failed"
  /\ pods["alice"].start # NoTime
  /\ now - pods["alice"].start > get_session("alice").duration
  /\ pods["bob"].phase = "Running"

\* C39: a delete_session by the owner of a session whose namespace an earlier
\* delete_session has removed before failing, so that service-<id> is still
\* there, completes the remaining steps: when it returns, service-<id> and the
\* Ingress rule of the session are gone.
C39_DeleteRetryCompletes ==
  \A t \in Procs :
    LET l == proc[t] IN
    (/\ l.op = "delete" /\ Done(t)
     /\ l.caller = l.id
     /\ l.res.kind # "Unauthorized"
     /\ l.id \notin l.pre.ns
     /\ l.id \in l.pre.ext)
      => /\ l.id \notin extServices
         /\ Count(ingress.rules, l.id) = 0

\* C40: when a delete_session of alice by its owner, which found the session,
\* has returned and the pass of the reaper that listed the session as expired is
\* over, nothing of the session is left: no namespace, no pod, no service-<id>
\* and no Ingress rule for its host.
C40_DeleteRaceLeavesNothing ==
  (/\ proc["p1"].op = "delete" /\ Done("p1")
   /\ proc["p1"].res.kind \in {"Ok", "Failure"}
   /\ proc[Reaper].pc = "r_sleep"
   /\ \E e \in proc[Reaper].expired : e[1] = proc["p1"].id)
    => /\ proc["p1"].id \notin namespaces
       /\ pods[proc["p1"].id] = NoPod
       /\ proc["p1"].id \notin extServices
       /\ Count(ingress.rules, proc["p1"].id) = 0

====
